---- MODULE Spec2Model ----
(***************************************************************************)
(* Model of scripts/loss_experiment.py: main() drives `iterations` lossy   *)
(* WAV -> Opus -> WAV round trips, samples quality metrics every           *)
(* `metrics_interval` iterations and writes a checkpoint (a copy of the    *)
(* decoded file plus metrics.json) every `save_interval` iterations.       *)
(* Each file operation of the loop body is one step, so that the states    *)
(* between two operations are visible.                                     *)
(***************************************************************************)
EXTENDS Integers, Sequences, FiniteSets, TLC

VARIABLES
    iterations,        \* main's parameter `iterations`
    metrics_interval,  \* main's parameter `metrics_interval`
    save_interval,     \* main's parameter `save_interval`
    run,               \* ordinal of the current invocation of main
    input_path,        \* Path(input_file)
    fs,                \* audio files on disk: path -> content
    metrics_json,      \* output_dir / "metrics.json" of each invocation
    orig_signal,       \* reference signal loaded once before the loop
    current,           \* path of the file the next encode reads
    metrics,           \* the in-memory list of metric records
    processed_signal,  \* signal loaded at the last sampled iteration
    i,                 \* loop variable
    pc,                \* the statement of main executed next
    status,            \* running | done | failed | crashed | interrupted
    blocked,           \* TRUE while a codec subprocess never returns
    error,             \* the exception that ended the run, if any
    codec_log,         \* number of codec invocations that succeeded / failed
    last_plot          \* arguments of the last plot_progress call

vars == <<iterations, metrics_interval, save_interval, run, input_path, fs,
          metrics_json, orig_signal, current, metrics, processed_signal, i,
          pc, status, blocked, error, codec_log, last_plot>>

(***************************** bounds **************************************)
MaxIterations == 4
MaxMetricsInterval == 3
MaxSaveInterval == 3
MaxRuns == 2

(***************************** constants ***********************************)
\* frame_length of librosa.util.frame in calculate_noise_entropy: a signal
\* shorter than one frame makes the call raise.
FrameLength == 1024

\* Lengths of the user's input signal: degenerate (zero-length) or one frame.
InputLengths == {0, FrameLength}

(***************************** paths ***************************************)
UserInput == [name |-> "input", idx |-> 0, run |-> 0]
TempOpus(r, n) == [name |-> "temp_opus", idx |-> n, run |-> r]
TempWav(r, n) == [name |-> "temp_wav", idx |-> n, run |-> r]
CheckpointPath(r, n) == [name |-> "checkpoint", idx |-> n, run |-> r]
FinalOutput(r) == [name |-> "final", idx |-> 0, run |-> r]

IsTemp(p) == p.name \in {"temp_opus", "temp_wav"}

(***************************** files ***************************************)
Exists(p) == p \in DOMAIN fs
Put(f, p, c) == [q \in DOMAIN f \cup {p} |-> IF q = p THEN c ELSE f[q]]
Remove(f, S) == [q \in DOMAIN f \ S |-> f[q]]

\* ffmpeg -c:a libopus: one more lossy encoding of the samples.
ConvertWavToOpusContent(c) ==
    [fmt |-> "opus", gen |-> c.gen + 1, len |-> c.len, complete |-> TRUE]

\* ffmpeg -acodec pcm_s16le: the decoded samples of the opus blob.
ConvertOpusToWavContent(c) ==
    [fmt |-> "wav", gen |-> c.gen, len |-> c.len, complete |-> TRUE]

\* One lossy round trip of a wav file content.
RoundTrip(c) == ConvertOpusToWavContent(ConvertWavToOpusContent(c))

\* librosa.load: the samples of a file as an in-memory signal.
LibrosaLoad(c) == [gen |-> c.gen, len |-> c.len]

NoSignal == [gen |-> -1, len |-> 0]

(***************************** metrics *************************************)
Min(a, b) == IF a <= b THEN a ELSE b

\* calculate_audio_metrics truncates both signals to min_len and compares
\* them; the record is a function of the two truncated signals.
current_metrics(orig, processed) ==
    [orig |-> orig.gen, proc |-> processed.gen,
     min_len |-> Min(orig.len, processed.len)]

\* librosa.util.frame(signal, frame_length=1024, ...) raises on a signal
\* shorter than one frame; nothing in main catches it.
MetricsRaises(orig, processed) == Min(orig.len, processed.len) < FrameLength

(***************************** metrics.json ********************************)
AbsentDoc == [state |-> "absent", last_iteration |-> -1, metrics |-> <<>>]
TruncatedDoc == [state |-> "partial", last_iteration |-> -1, metrics |-> <<>>]
\* Faulty variant of JsonDumpDoc: last_iteration counts iterations from 1.
JsonDumpDoc_OneBased(n, ms) ==
    [state |-> "complete", last_iteration |-> n + 1, metrics |-> ms]

JsonDumpDoc(n, ms) == [state |-> "complete", last_iteration |-> n, metrics |-> ms]

(***************************** errors **************************************)
NoError == [kind |-> "none", src |-> UserInput, dst |-> UserInput]
Raise(kind, src, dst) == [kind |-> kind, src |-> src, dst |-> dst]

(***************************** initial state *******************************)
\* main up to the loop: directories created, reference signal loaded,
\* current = input_path, metrics = [].
Init ==
    /\ iterations \in 1..MaxIterations
    /\ metrics_interval \in 1..MaxMetricsInterval
    /\ save_interval \in 1..MaxSaveInterval
    /\ run = 1
    /\ input_path = UserInput
    /\ \E l \in InputLengths :
         /\ fs = (UserInput :> [fmt |-> "wav", gen |-> 0, len |-> l, complete |-> TRUE])
         /\ orig_signal = [gen |-> 0, len |-> l]
    /\ metrics_json = [r \in 1..MaxRuns |-> AbsentDoc]
    /\ current = UserInput
    /\ metrics = <<>>
    /\ processed_signal = NoSignal
    /\ i = 0
    /\ pc = "encode"
    /\ status = "running"
    /\ blocked = FALSE
    /\ error = NoError
    /\ codec_log = [ok |-> 0, failed |-> 0]
    /\ last_plot = [iteration |-> -1, records |-> 0, current_signal |-> NoSignal]

Running == status = "running" /\ ~blocked

params == <<iterations, metrics_interval, save_interval, run, input_path>>

\* An uncaught exception leaves main: nothing after the raising statement runs.
Abort(kind, src, dst) ==
    /\ status' = "failed"
    /\ error' = Raise(kind, src, dst)

(***************************** loop ****************************************)
\* for i in range(iterations): the next value of the loop variable, or the
\* statement after the loop.
LoopNext ==
    IF i + 1 < iterations
    THEN i' = i + 1 /\ pc' = "encode"
    ELSE i' = i /\ pc' = "final"

(***************************** codec ***************************************)
\* convert_wav_to_opus(current, opus), the subprocess exits with status 0.
ConvertWavToOpus ==
    /\ Running /\ pc = "encode"
    /\ Exists(current)
    /\ fs' = Put(fs, TempOpus(run, i), ConvertWavToOpusContent(fs[current]))
    /\ codec_log' = [codec_log EXCEPT !.ok = @ + 1]
    /\ pc' = "decode"
    /\ UNCHANGED <<params, metrics_json, orig_signal, current, metrics,
                   processed_signal, i, status, blocked, error, last_plot>>

\* Faulty variant of ConvertOpusToWav: the previous wav is retired as soon as
\* the new one is decoded, before the checkpoint block of the iteration.
ConvertOpusToWav_RetireEarly ==
    /\ Running /\ pc = "decode"
    /\ Exists(TempOpus(run, i))
    /\ fs' = Remove(Put(fs, TempWav(run, i),
                        ConvertOpusToWavContent(fs[TempOpus(run, i)])),
                    {TempWav(run, i - 1)})
    /\ codec_log' = [codec_log EXCEPT !.ok = @ + 1]
    /\ pc' = "sample"
    /\ UNCHANGED <<params, metrics_json, orig_signal, current, metrics,
                   processed_signal, i, status, blocked, error, last_plot>>

\* convert_opus_to_wav(opus, wav), the subprocess exits with status 0.
ConvertOpusToWav ==
    /\ Running /\ pc = "decode"
    /\ Exists(TempOpus(run, i))
    /\ fs' = Put(fs, TempWav(run, i), ConvertOpusToWavContent(fs[TempOpus(run, i)]))
    /\ codec_log' = [codec_log EXCEPT !.ok = @ + 1]
    /\ pc' = "sample"
    /\ UNCHANGED <<params, metrics_json, orig_signal, current, metrics,
                   processed_signal, i, status, blocked, error, last_plot>>

CodecSrc == IF pc = "encode" THEN current ELSE TempOpus(run, i)
CodecDst == IF pc = "encode" THEN TempOpus(run, i) ELSE TempWav(run, i)

\* Faulty variant of CodecFails: the failure is caught and the iteration
\* skipped, the loop going on with the next one.
CodecFails_Skipped ==
    /\ Running /\ pc \in {"encode", "decode"}
    /\ codec_log' = [codec_log EXCEPT !.failed = @ + 1]
    /\ LoopNext
    /\ UNCHANGED <<params, fs, metrics_json, orig_signal, current, metrics,
                   processed_signal, status, blocked, error, last_plot>>

\* subprocess.run(..., check=True) raises CalledProcessError on a nonzero
\* exit status (always so when the source file is missing); main has no
\* handler and no retry, so the first failure ends the run.
CodecFails ==
    /\ Running /\ pc \in {"encode", "decode"}
    /\ codec_log' = [codec_log EXCEPT !.failed = @ + 1]
    /\ Abort("CalledProcessError", CodecSrc, CodecDst)
    /\ UNCHANGED <<params, fs, metrics_json, orig_signal, current, metrics,
                   processed_signal, i, pc, blocked, last_plot>>

\* subprocess.run is called without timeout=: a codec process that never
\* exits blocks main forever.
CodecHangs ==
    /\ Running /\ pc \in {"encode", "decode"}
    /\ Exists(CodecSrc)
    /\ blocked' = TRUE
    /\ UNCHANGED <<params, fs, metrics_json, orig_signal, current, metrics,
                   processed_signal, i, pc, status, error, codec_log, last_plot>>

(***************************** sampling ************************************)
\* Faulty variant of SampleDue: the sampling test is off by one.
SampleDue_OffByOne(n) == (n + 1) % metrics_interval = 0

\* if i % metrics_interval == 0
SampleDue(n) == n % metrics_interval = 0

\* processed_signal = librosa.load(wav); current_metrics =
\* calculate_audio_metrics(orig_signal, processed_signal);
\* metrics.append(current_metrics).  An exception raised by the metrics
\* computation propagates out of main.
SampleMetrics ==
    /\ Running /\ pc = "sample" /\ SampleDue(i)
    /\ IF ~Exists(TempWav(run, i))
       THEN /\ Abort("FileNotFoundError", TempWav(run, i), TempWav(run, i))
            /\ UNCHANGED <<processed_signal, metrics, pc>>
       ELSE LET loaded == LibrosaLoad(fs[TempWav(run, i)]) IN
            /\ processed_signal' = loaded
            /\ IF MetricsRaises(orig_signal, loaded)
               THEN /\ Abort("ParameterError", TempWav(run, i), TempWav(run, i))
                    /\ UNCHANGED <<metrics, pc>>
               ELSE /\ metrics' = Append(metrics, current_metrics(orig_signal, loaded))
                    /\ pc' = "save"
                    /\ UNCHANGED <<status, error>>
    /\ UNCHANGED <<params, fs, metrics_json, orig_signal, current, i, blocked,
                   codec_log, last_plot>>

\* The iteration is not a sampled one: the if-body is skipped.
SkipMetrics ==
    /\ Running /\ pc = "sample" /\ ~SampleDue(i)
    /\ pc' = "save"
    /\ UNCHANGED <<params, fs, metrics_json, orig_signal, current, metrics,
                   processed_signal, i, status, blocked, error, codec_log,
                   last_plot>>

(***************************** checkpoint **********************************)
\* Faulty variant of SaveDue: iteration 0 writes no checkpoint.
SaveDue_SkipFirst(n) == n > 0 /\ n % save_interval = 0

\* if i % save_interval == 0
SaveDue(n) == n % save_interval = 0

\* shutil.copy2(wav, checkpoint) opens the destination and starts writing:
\* the checkpoint file exists but is not complete yet.
CopyCheckpointBegin ==
    /\ Running /\ pc = "save" /\ SaveDue(i)
    /\ IF ~Exists(TempWav(run, i))
       THEN /\ Abort("FileNotFoundError", TempWav(run, i), CheckpointPath(run, i))
            /\ UNCHANGED <<fs, pc>>
       ELSE /\ fs' = Put(fs, CheckpointPath(run, i),
                         [fs[TempWav(run, i)] EXCEPT !.complete = FALSE])
            /\ pc' = "copying"
            /\ UNCHANGED <<status, error>>
    /\ UNCHANGED <<params, metrics_json, orig_signal, current, metrics,
                   processed_signal, i, blocked, codec_log, last_plot>>

\* shutil.copy2 returns: the checkpoint file holds the whole signal.
CopyCheckpointEnd ==
    /\ Running /\ pc = "copying"
    /\ fs' = [fs EXCEPT ![CheckpointPath(run, i)].complete = TRUE]
    /\ pc' = "open"
    /\ UNCHANGED <<params, metrics_json, orig_signal, current, metrics,
                   processed_signal, i, status, blocked, error, codec_log,
                   last_plot>>

\* open(metrics_file, "w") truncates metrics.json in place.
OpenMetricsFile ==
    /\ Running /\ pc = "open"
    /\ metrics_json' = [metrics_json EXCEPT ![run] = TruncatedDoc]
    /\ pc' = "dump"
    /\ UNCHANGED <<params, fs, orig_signal, current, metrics, processed_signal,
                   i, status, blocked, error, codec_log, last_plot>>

\* json.dump({"last_iteration": i, "metrics": metrics, ...}, f) and the end
\* of the with block.
JsonDump ==
    /\ Running /\ pc = "dump"
    /\ metrics_json' = [metrics_json EXCEPT ![run] = JsonDumpDoc(i, metrics)]
    /\ pc' = "plot"
    /\ UNCHANGED <<params, fs, orig_signal, current, metrics, processed_signal,
                   i, status, blocked, error, codec_log, last_plot>>

\* Faulty variant of PlotProgress: the plot is handed the freshly decoded
\* output of the current iteration.
PlotProgress_Fresh ==
    /\ Running /\ pc = "plot"
    /\ last_plot' = [iteration |-> i, records |-> Len(metrics),
                     current_signal |-> LibrosaLoad(fs[TempWav(run, i)])]
    /\ pc' = "advance"
    /\ UNCHANGED <<params, fs, metrics_json, orig_signal, current, metrics,
                   processed_signal, i, status, blocked, error, codec_log>>

\* plot_progress(metrics, ..., orig_signal=orig_signal,
\*               current_signal=processed_signal)
PlotProgress ==
    /\ Running /\ pc = "plot"
    /\ last_plot' = [iteration |-> i, records |-> Len(metrics),
                     current_signal |-> processed_signal]
    /\ pc' = "advance"
    /\ UNCHANGED <<params, fs, metrics_json, orig_signal, current, metrics,
                   processed_signal, i, status, blocked, error, codec_log>>

\* The iteration is not a checkpoint one: the if-body is skipped.
SkipSave ==
    /\ Running /\ pc = "save" /\ ~SaveDue(i)
    /\ pc' = "advance"
    /\ UNCHANGED <<params, fs, metrics_json, orig_signal, current, metrics,
                   processed_signal, i, status, blocked, error, codec_log,
                   last_plot>>

\* An OSError (disk full, permission) raised inside the copy, the open or
\* the dump propagates out of main; what was written so far stays on disk.
StorageFails ==
    /\ Running /\ pc \in {"copying", "open", "dump"}
    /\ Abort("OSError", TempWav(run, i), CheckpointPath(run, i))
    /\ UNCHANGED <<params, fs, metrics_json, orig_signal, current, metrics,
                   processed_signal, i, pc, blocked, codec_log, last_plot>>

(***************************** retirement **********************************)
\* Faulty variant of Advance: `current` is left on the file it named, so the
\* next iteration encodes the same input again.
Advance_Stale ==
    /\ Running /\ pc = "advance"
    /\ pc' = "unlink_opus"
    /\ UNCHANGED <<params, fs, metrics_json, orig_signal, current, metrics,
                   processed_signal, i, status, blocked, error, codec_log,
                   last_plot>>

\* current = wav
Advance ==
    /\ Running /\ pc = "advance"
    /\ current' = TempWav(run, i)
    /\ pc' = "unlink_opus"
    /\ UNCHANGED <<params, fs, metrics_json, orig_signal, metrics,
                   processed_signal, i, status, blocked, error, codec_log,
                   last_plot>>

\* opus.unlink()
UnlinkOpus ==
    /\ Running /\ pc = "unlink_opus"
    /\ IF Exists(TempOpus(run, i))
       THEN /\ fs' = Remove(fs, {TempOpus(run, i)})
            /\ pc' = "unlink_prev"
            /\ UNCHANGED <<status, error>>
       ELSE /\ Abort("FileNotFoundError", TempOpus(run, i), TempOpus(run, i))
            /\ UNCHANGED <<fs, pc>>
    /\ UNCHANGED <<params, metrics_json, orig_signal, current, metrics,
                   processed_signal, i, blocked, codec_log, last_plot>>

\* Faulty variant of UnlinkPrevious: the previous wav is never unlinked.
UnlinkPrevious_Kept ==
    /\ Running /\ pc = "unlink_prev" /\ i > 0
    /\ LoopNext
    /\ UNCHANGED <<params, fs, metrics_json, orig_signal, current, metrics,
                   processed_signal, status, blocked, error, codec_log,
                   last_plot>>

\* Faulty variant of UnlinkPrevious: the wav of the current iteration is
\* unlinked instead of the previous one.
UnlinkPrevious_Current ==
    /\ Running /\ pc = "unlink_prev" /\ i > 0
    /\ IF Exists(TempWav(run, i))
       THEN /\ fs' = Remove(fs, {TempWav(run, i)})
            /\ LoopNext
            /\ UNCHANGED <<status, error>>
       ELSE /\ Abort("FileNotFoundError", TempWav(run, i), TempWav(run, i))
            /\ UNCHANGED <<fs, pc, i>>
    /\ UNCHANGED <<params, metrics_json, orig_signal, current, metrics,
                   processed_signal, blocked, codec_log, last_plot>>

\* if i > 0: (temp_dir / f"temp_{i-1}.wav").unlink(), then the loop header.
UnlinkPrevious ==
    /\ Running /\ pc = "unlink_prev" /\ i > 0
    /\ IF Exists(TempWav(run, i - 1))
       THEN /\ fs' = Remove(fs, {TempWav(run, i - 1)})
            /\ LoopNext
            /\ UNCHANGED <<status, error>>
       ELSE /\ Abort("FileNotFoundError", TempWav(run, i - 1), TempWav(run, i - 1))
            /\ UNCHANGED <<fs, pc, i>>
    /\ UNCHANGED <<params, metrics_json, orig_signal, current, metrics,
                   processed_signal, blocked, codec_log, last_plot>>

\* i == 0: there is no previous wav; the loop header follows.
KeepFirst ==
    /\ Running /\ pc = "unlink_prev" /\ i = 0
    /\ LoopNext
    /\ UNCHANGED <<params, fs, metrics_json, orig_signal, current, metrics,
                   processed_signal, status, blocked, error, codec_log,
                   last_plot>>

(***************************** end of main *********************************)
\* shutil.copy2(current, final_output)
SaveFinal ==
    /\ Running /\ pc = "final"
    /\ IF Exists(current)
       THEN /\ fs' = Put(fs, FinalOutput(run), fs[current])
            /\ pc' = "cleanup"
            /\ UNCHANGED <<status, error>>
       ELSE /\ Abort("FileNotFoundError", current, FinalOutput(run))
            /\ UNCHANGED <<fs, pc>>
    /\ UNCHANGED <<params, metrics_json, orig_signal, current, metrics,
                   processed_signal, i, blocked, codec_log, last_plot>>

\* Faulty variant of Cleanup: the tree removed also holds the checkpoints.
Cleanup_RemovesCheckpoints ==
    /\ Running /\ pc = "cleanup"
    /\ fs' = Remove(fs, {p \in DOMAIN fs :
                           (IsTemp(p) \/ p.name = "checkpoint") /\ p.run = run})
    /\ pc' = "exit"
    /\ status' = "done"
    /\ UNCHANGED <<params, metrics_json, orig_signal, current, metrics,
                   processed_signal, i, blocked, error, codec_log, last_plot>>

\* shutil.rmtree(temp_dir); main returns.
Cleanup ==
    /\ Running /\ pc = "cleanup"
    /\ fs' = Remove(fs, {p \in DOMAIN fs : IsTemp(p) /\ p.run = run})
    /\ pc' = "exit"
    /\ status' = "done"
    /\ UNCHANGED <<params, metrics_json, orig_signal, current, metrics,
                   processed_signal, i, blocked, error, codec_log, last_plot>>

(***************************** environment *********************************)
\* The process is killed (power loss, SIGKILL) at an arbitrary statement.
Crash ==
    /\ status = "running"
    /\ status' = "crashed"
    /\ UNCHANGED <<params, fs, metrics_json, orig_signal, current, metrics,
                   processed_signal, i, pc, blocked, error, codec_log, last_plot>>

\* KeyboardInterrupt is raised at the statement being executed; main installs
\* no handler and defers nothing.
Interrupt ==
    /\ status = "running"
    /\ status' = "interrupted"
    /\ error' = Raise("KeyboardInterrupt", current, current)
    /\ UNCHANGED <<params, fs, metrics_json, orig_signal, current, metrics,
                   processed_signal, i, pc, blocked, codec_log, last_plot>>

\* The file a completed run left as its latest checkpoint.
LatestCheckpoint(r) == CheckpointPath(r, metrics_json[r].last_iteration)

\* main is the only entry point and takes no checkpoint state: restarting
\* from a checkpoint is a new call main(checkpoint file, iterations, ...),
\* which creates a new temp_dir and output_dir, reloads orig_signal from its
\* input and starts again with i = 0 and metrics = [].
Restart ==
    /\ status = "done" /\ run < MaxRuns
    /\ Exists(LatestCheckpoint(run))
    /\ run' = run + 1
    /\ input_path' = LatestCheckpoint(run)
    /\ orig_signal' = LibrosaLoad(fs[LatestCheckpoint(run)])
    /\ current' = LatestCheckpoint(run)
    /\ metrics' = <<>>
    /\ i' = 0
    /\ pc' = "encode"
    /\ status' = "running"
    /\ UNCHANGED <<iterations, metrics_interval, save_interval, fs, metrics_json,
                   processed_signal, blocked, error, codec_log, last_plot>>

(***************************** specification *******************************)
Step ==
    \/ ConvertWavToOpus
    \/ ConvertOpusToWav
    \/ SampleMetrics
    \/ SkipMetrics
    \/ CopyCheckpointBegin
    \/ CopyCheckpointEnd
    \/ OpenMetricsFile
    \/ JsonDump
    \/ PlotProgress
    \/ SkipSave
    \/ Advance
    \/ UnlinkOpus
    \/ UnlinkPrevious
    \/ KeepFirst
    \/ SaveFinal
    \/ Cleanup

Next ==
    \/ Step
    \/ CodecFails
    \/ CodecHangs
    \/ StorageFails
    \/ Crash
    \/ Interrupt
    \/ Restart

Spec == Init /\ [][Next]_vars

\* main is sequential code: whenever its next statement can run, it runs.
\* Failures, hangs, crashes and interrupts are the environment's choice.
FairSpec == Spec /\ WF_vars(Step)

(***************************** derived state *******************************)
Ceil(a, b) == (a + b - 1) \div b

RECURSIVE Iterate(_, _)
\* The content of a wav file after n lossy round trips.
Iterate(c, n) == IF n = 0 THEN c ELSE Iterate(RoundTrip(c), n - 1)

\* The last iteration whose sampling statement has been passed (-1: none).
LastPassedSampling == IF pc \in {"encode", "decode", "sample"} THEN i - 1 ELSE i

\* The record main appends at the k-th sampling point of the current run.
ExpectedRecord(k) ==
    current_metrics(orig_signal,
                    LibrosaLoad(Iterate(fs[input_path], (k - 1) * metrics_interval + 1)))

TempArtifacts == {p \in DOMAIN fs : IsTemp(p)}

CheckpointFiles(r) == {p \in DOMAIN fs : p.name = "checkpoint" /\ p.run = r}

\* A checkpoint can be loaded when metrics.json parses and the signal file
\* it names is complete.
Loadable(r) ==
    /\ metrics_json[r].state = "complete"
    /\ Exists(LatestCheckpoint(r))
    /\ fs[LatestCheckpoint(r)].complete

\* Iterations whose checkpoint is valid: a complete signal file together
\* with a parseable metrics file.
ValidCheckpoints(r) ==
    {p \in CheckpointFiles(r) : fs[p].complete /\ metrics_json[r].state = "complete"}

\* Iteration 0 always writes a checkpoint; it is complete once the dump of
\* iteration 0 has returned.
FirstCheckpointCompleted ==
    i > 0 \/ pc \in {"plot", "advance", "unlink_opus", "unlink_prev",
                     "final", "cleanup", "exit"}

\* Statements between the start of the checkpoint write and the end of the
\* retirement of the temporary files of one iteration.
InCheckpointOrCleanup ==
    pc \in {"copying", "open", "dump", "plot", "advance", "unlink_opus",
            "unlink_prev"}

(***************************** claims **************************************)

\* C1: the series holds exactly one record per sampled iteration 0, K, 2K, ...
\* in index order: after the sampling statement of iteration n has been
\* passed its length is floor(n / K) + 1, its k-th record is the record of
\* iteration (k-1)*K, and a completed run holds ceil(iterations / K) records.
C1_SeriesSampling ==
    /\ Len(metrics) = (LastPassedSampling \div metrics_interval) + 1
    /\ \A k \in 1..Len(metrics) : metrics[k] = ExpectedRecord(k)
    /\ status = "done" => Len(metrics) = Ceil(iterations, metrics_interval)

C1_Witness ==
    /\ status = "done" /\ iterations = 4 /\ metrics_interval = 3
    /\ Len(metrics) = 2
    /\ metrics[2].proc = fs[input_path].gen + 4

\* C2 (as claimed): after a crash that follows the first completed
\* checkpoint, at least one valid checkpoint is on disk.
C2_CheckpointAtomicity ==
    (status = "crashed" /\ FirstCheckpointCompleted) => ValidCheckpoints(run) # {}

\* C3 (as claimed): at most 2 temporary artifacts exist in every state.
C3_AtMostTwoTemporaries == Cardinality(TempArtifacts) <= 2

\* C3 (amended): at most 3 temporary artifacts (the previous wav, the current
\* opus and the current wav) exist in every state, whatever the iteration.
C3_AtMostThreeTemporaries == Cardinality(TempArtifacts) <= 3

C3_Witness ==
    /\ i = 3 /\ pc = "sample"
    /\ TempArtifacts = {TempWav(run, 2), TempOpus(run, 3), TempWav(run, 3)}

\* C4 (as claimed): a run of N/2 iterations whose last iteration was
\* checkpointed, restarted from that checkpoint for the other N/2 iterations,
\* ends with the final signal and the metrics series of an uninterrupted run
\* of N iterations on the user's input.
C4_ResumptionEquivalence ==
    (run = 2 /\ status = "done" /\ metrics_json[1].last_iteration = iterations - 1) =>
        /\ fs[FinalOutput(2)] = Iterate(fs[UserInput], 2 * iterations)
        /\ metrics =
             [k \in 1..Ceil(2 * iterations, metrics_interval) |->
                current_metrics(LibrosaLoad(fs[UserInput]),
                                LibrosaLoad(Iterate(fs[UserInput],
                                                    (k - 1) * metrics_interval + 1)))]

\* C5 (as claimed): a codec failure is fatal only after the invocation has
\* been retried, so a run that failed on the codec saw at least two failures.
C5_RetryBeforeFatal ==
    (status = "failed" /\ error.kind = "CalledProcessError") => codec_log.failed >= 2

\* C6: when every codec invocation made so far has failed, the run has
\* aborted in iteration 0 with no record appended, the store holds no
\* checkpoint file and no metrics.json, and the raised error names
\* temp_0.opus, the output of iteration 0.
C6_AlwaysFailingCodec ==
    (codec_log.failed > 0 /\ codec_log.ok = 0) =>
        /\ status = "failed"
        /\ i = 0 /\ pc = "encode"
        /\ metrics = <<>>
        /\ CheckpointFiles(run) = {} /\ metrics_json[run].state = "absent"
        /\ error.kind = "CalledProcessError" /\ error.dst = TempOpus(run, 0)

C6_Witness ==
    status = "failed" /\ codec_log = [ok |-> 0, failed |-> 1] /\ iterations > 1

\* C7: a codec failure in an iteration i >= 1 aborts the run without touching
\* any checkpoint file or metrics.json, and leaves a loadable checkpoint
\* whose last_iteration is at most i - 1.
C7_CodecFailurePreservesCheckpoint ==
    [][(status = "running" /\ error'.kind = "CalledProcessError" /\ i >= 1) =>
          /\ status' = "failed"
          /\ CheckpointFiles(run)' = CheckpointFiles(run)
          /\ \A p \in CheckpointFiles(run) : fs'[p] = fs[p]
          /\ metrics_json' = metrics_json
          /\ Loadable(run)'
          /\ metrics_json'[run].last_iteration <= i - 1]_vars

C7_Witness ==
    /\ status = "failed" /\ error.kind = "CalledProcessError" /\ i = 2
    /\ Loadable(run) /\ metrics_json[run].last_iteration = 0
    /\ CheckpointFiles(run) = {CheckpointPath(run, 0)}

\* C8 (as claimed): every run eventually reaches a terminal state; it never
\* stays blocked in a codec invocation forever.
C8_RunTerminates == <>(status \in {"done", "failed", "crashed", "interrupted"})

\* C9 (as claimed): an interrupt never stops the run between the start of an
\* iteration's checkpoint write and the end of its temporary-file retirement.
C9_InterruptOnlyBetweenIterations ==
    status = "interrupted" => ~InCheckpointOrCleanup

\* C10 (as claimed): a metrics computation that fails at a sampled iteration
\* does not abort the run.
C10_MetricsFailureRecovered ==
    ~(status = "failed" /\ error.kind = "ParameterError")

\* C11 (as claimed): in every terminal state of a run, after success or after
\* a codec or storage failure, no temporary artifact of the run is on disk.
C11_NoTemporariesAtExit ==
    (status = "done" \/ (status = "failed" /\ error.kind \in {"CalledProcessError", "OSError"})) =>
        TempArtifacts = {}

\* C14 (as claimed): a completed run leaves the output of its last iteration
\* as the final signal and the full series in the persisted metrics, records
\* sampled after the last checkpoint included.
C14_FinalOutputs ==
    status = "done" =>
        /\ Exists(FinalOutput(run))
        /\ fs[FinalOutput(run)] = Iterate(fs[input_path], iterations)
        /\ metrics_json[run].state = "complete"
        /\ metrics_json[run].metrics = metrics

\* Statements of an iteration that precede the return of its json.dump: the
\* checkpoint of the iteration is unwritten or partially written.
BeforeCheckpointDone ==
    pc \in {"encode", "decode", "sample", "save", "copying", "open", "dump"}

\* C15: the previous iteration's wav is on disk as long as the checkpoint of
\* a checkpoint iteration i >= 1 is unwritten or partially written, and a
\* failed checkpoint write leaves temp_<i-1>.wav and temp_<i>.wav on disk.
C15_RetireAfterCheckpoint ==
    /\ (i >= 1 /\ SaveDue(i) /\ BeforeCheckpointDone) => Exists(TempWav(run, i - 1))
    /\ (status = "failed" /\ error.kind = "OSError") =>
          /\ Exists(TempWav(run, i))
          /\ i >= 1 => Exists(TempWav(run, i - 1))

C15_Witness ==
    /\ status = "failed" /\ error.kind = "OSError" /\ i = 2 /\ pc = "dump"
    /\ Exists(TempWav(run, 1)) /\ Exists(TempWav(run, 2))
    /\ metrics_json[run].state = "partial"

\* Statements at which the wav decoded by the current iteration is on disk.
AfterDecode == pc \notin {"encode", "decode", "exit"}

\* C16: the codec input of iteration i is the run's input passed through i
\* round trips (the input itself for i = 0, the output of iteration i-1
\* otherwise), the output of iteration i is the input after i+1 round trips,
\* the reference signal is the loaded input and never changes during a run,
\* and the k-th record compares that reference with the output of its
\* sampled iteration.
C16_CumulativeDegradation ==
    /\ [](/\ Exists(input_path)
          /\ orig_signal = LibrosaLoad(fs[input_path])
          /\ pc = "encode" =>
                (Exists(current) /\ fs[current] = Iterate(fs[input_path], i))
          /\ AfterDecode =>
                (/\ Exists(TempWav(run, i))
                 /\ fs[TempWav(run, i)] = Iterate(fs[input_path], i + 1))
          /\ \A k \in 1..Len(metrics) :
                /\ metrics[k].orig = orig_signal.gen
                /\ metrics[k].proc = orig_signal.gen + (k - 1) * metrics_interval + 1)
    /\ [][run' = run => orig_signal' = orig_signal]_vars

C16_Witness ==
    /\ run = 1 /\ i = 2 /\ pc = "sample" /\ metrics_interval = 1
    /\ current = TempWav(1, 1) /\ fs[current].gen = 2
    /\ fs[TempWav(1, 2)].gen = 3
    /\ metrics = <<[orig |-> 0, proc |-> 1, min_len |-> FrameLength],
                   [orig |-> 0, proc |-> 2, min_len |-> FrameLength]>>

\* The last iteration whose checkpoint test has been passed (-1: none).
LastPassedSave == IF pc \in {"encode", "decode", "sample", "save"} THEN i - 1 ELSE i

\* The last iteration whose checkpoint block could have completed (-1: none).
LastDumped == IF BeforeCheckpointDone THEN i - 1 ELSE i

\* C17: checkpoint files exist exactly for the iterations j with
\* j % save_interval = 0 whose checkpoint test has been passed; each holds
\* the signal produced by its iteration; a complete metrics.json names the
\* latest such iteration whose dump returned (so it only grows with the loop
\* and never exceeds i) and holds exactly the records of the sampled
\* iterations up to it.
C17_CheckpointContents ==
    LET doc == metrics_json[run] IN
    /\ {p.idx : p \in CheckpointFiles(run)} = {j \in 0..LastPassedSave : j % save_interval = 0}
    /\ \A p \in CheckpointFiles(run) :
          /\ fs[p] = [Iterate(fs[input_path], p.idx + 1) EXCEPT !.complete = fs[p].complete]
          /\ fs[p].complete \/ (p.idx = i /\ pc = "copying")
    /\ doc.state = "complete" <=> (LastDumped >= 0 /\ pc # "dump")
    /\ doc.state = "complete" =>
          /\ doc.last_iteration = (LastDumped \div save_interval) * save_interval
          /\ doc.last_iteration <= i
          /\ Len(doc.metrics) = (doc.last_iteration \div metrics_interval) + 1
          /\ \A k \in 1..Len(doc.metrics) : doc.metrics[k] = ExpectedRecord(k)

C17_Witness ==
    /\ run = 1 /\ i = 3 /\ pc = "plot" /\ save_interval = 3 /\ metrics_interval = 2
    /\ metrics_json[1].state = "complete" /\ metrics_json[1].last_iteration = 3
    /\ Len(metrics_json[1].metrics) = 2
    /\ CheckpointFiles(1) = {CheckpointPath(1, 0), CheckpointPath(1, 3)}

\* C18: whenever the metrics.json of a run holds a complete document with
\* last_iteration = j, the complete signal file checkpoint_<j>.wav of that
\* run is on disk.
C18_MetricsNamesExistingCheckpoint ==
    \A r \in 1..MaxRuns :
        metrics_json[r].state = "complete" =>
            /\ CheckpointPath(r, metrics_json[r].last_iteration) \in DOMAIN fs
            /\ fs[CheckpointPath(r, metrics_json[r].last_iteration)].complete

\* The converse fails here: checkpoint_2.wav is complete while metrics.json
\* still names iteration 0 (whose signal file exists).
C18_Witness ==
    /\ run = 1 /\ i = 2 /\ pc = "open" /\ save_interval = 2
    /\ Exists(CheckpointPath(1, 2)) /\ fs[CheckpointPath(1, 2)].complete
    /\ metrics_json[1].state = "complete" /\ metrics_json[1].last_iteration = 0
    /\ Exists(CheckpointPath(1, 0))

\* The files the statement at pc reads or unlinks.
FilesUsedNext ==
    CASE pc = "encode" -> {current}
      [] pc = "decode" -> {TempOpus(run, i)}
      [] pc = "sample" -> IF SampleDue(i) THEN {TempWav(run, i)} ELSE {}
      [] pc = "save" -> IF SaveDue(i) THEN {TempWav(run, i)} ELSE {}
      [] pc = "unlink_opus" -> {TempOpus(run, i)}
      [] pc = "unlink_prev" -> IF i > 0 THEN {TempWav(run, i - 1)} ELSE {}
      [] pc = "final" -> {current}
      [] OTHER -> {}

\* C19: every file the next statement reads or unlinks exists, no statement
\* has failed on a missing file, and the user's input file is on disk in
\* every state.
C19_NoUseAfterDelete ==
    /\ FilesUsedNext \subseteq DOMAIN fs
    /\ error.kind # "FileNotFoundError"
    /\ Exists(UserInput) /\ Exists(input_path)

C19_Witness ==
    /\ i = 3 /\ pc = "unlink_prev" /\ status = "running"
    /\ current = TempWav(run, 3)
    /\ {UserInput, TempWav(run, 2), TempWav(run, 3)} \subseteq DOMAIN fs

\* The decoded output of iteration n of the current run, as loaded.
OutputOf(n) == LibrosaLoad(Iterate(fs[input_path], n + 1))

\* C20: right after the plot call of a checkpoint iteration i, the signal
\* handed to plot_progress is the output of the most recent sampled
\* iteration i - (i mod metrics_interval); it is defined, and it is the
\* output of iteration i exactly when i is itself sampled.
C20_PlotSignalLag ==
    (pc = "advance" /\ SaveDue(i)) =>
        /\ last_plot.iteration = i
        /\ last_plot.current_signal = OutputOf(i - (i % metrics_interval))
        /\ last_plot.current_signal # NoSignal
        /\ last_plot.current_signal = OutputOf(i) <=> SampleDue(i)

C20_Witness ==
    /\ run = 1 /\ pc = "advance" /\ i = 3 /\ save_interval = 3 /\ metrics_interval = 2
    /\ last_plot.iteration = 3
    /\ last_plot.current_signal.gen = 3
    /\ fs[TempWav(1, 3)].gen = 4

(***************************** calculate_audio_metrics *********************)
(* The metrics function on concrete sample sequences.  Means are kept as   *)
(* exact fractions; a fraction with den = 0 is numpy's nan (the mean of an *)
(* empty array).                                                           *)
(***************************************************************************)
MaxSample == 1

\* Lengths around one frame of calculate_noise_entropy, and degenerate ones.
SignalLengths == {0, 1, FrameLength, FrameLength + 1}

\* Signals of n samples: a constant body and a last sample of its own.
TestSignals ==
    {[k \in 1..n |-> IF k = n THEN t ELSE v] :
        n \in SignalLengths, v \in 0..MaxSample, t \in 0..MaxSample}

\* signal[:n]
Truncate(signal, n) == SubSeq(signal, 1, n)

RECURSIVE SumOver(_, _, _)
\* np.sum of s[lo..hi]
SumOver(s, lo, hi) ==
    IF lo > hi THEN 0
    ELSE IF lo = hi THEN s[lo]
    ELSE LET mid == (lo + hi) \div 2 IN SumOver(s, lo, mid) + SumOver(s, mid + 1, hi)

\* np.mean
Mean(s) == [num |-> SumOver(s, 1, Len(s)), den |-> Len(s)]

Square(s) == [k \in 1..Len(s) |-> s[k] * s[k]]
Diff(a, b) == [k \in 1..Len(a) |-> a[k] - b[k]]

\* mse > 0 (False for nan)
Positive(q) == q.den > 0 /\ q.num > 0

\* 10 * np.log10(1.0 / mse) if mse > 0 else float("inf"): the finite value
\* is kept as the fraction 1 / mse it is the logarithm of.
Psnr(mse) ==
    IF Positive(mse)
    THEN [inf |-> FALSE, of |-> [num |-> mse.den, den |-> mse.num]]
    ELSE [inf |-> TRUE, of |-> [num |-> 0, den |-> 0]]

\* abs(np.sqrt(np.mean(orig**2)) - np.sqrt(np.mean(proc**2))): kept as the
\* unordered pair of the two mean squares; it is 0 exactly when they agree.
RmsDiff(orig, proc) == {Mean(Square(orig)), Mean(Square(proc))}

RmsDiffIsZero(d) == Cardinality(d) = 1 /\ \A q \in d : q.den > 0

\* Faulty variant of NoiseInput: the noise metrics read the whole processed
\* signal instead of its truncation.
NoiseInput_Untruncated(orig, processed) == processed

\* proc = processed_signal[:min_len], the argument of calculate_noise_entropy
NoiseInput(orig, processed) ==
    Truncate(processed, Min(Len(orig), Len(processed)))

\* librosa.util.frame(signal, frame_length=1024, hop_length=512) raises on a
\* signal shorter than one frame.
calculate_noise_entropy_raises(signal) == Len(signal) < FrameLength

calculate_audio_metrics_raises(orig, processed) ==
    calculate_noise_entropy_raises(NoiseInput(orig, processed))

\* calculate_audio_metrics: spectral_diff and noise_metrics are functions of
\* the signals they are computed from, kept as those signals.
calculate_audio_metrics(orig_sig, processed) ==
    LET min_len == Min(Len(orig_sig), Len(processed))
        orig == Truncate(orig_sig, min_len)
        proc == Truncate(processed, min_len)
        mse == Mean(Square(Diff(orig, proc)))
    IN [psnr |-> Psnr(mse),
        mse |-> mse,
        rms_diff |-> RmsDiff(orig, proc),
        spectral_diff |-> [welch_orig |-> orig, welch_proc |-> proc],
        noise_metrics |-> NoiseInput(orig_sig, processed)]

\* A call of calculate_audio_metrics on two signals of TestSignals.
MetricsInit ==
    /\ orig_signal \in TestSignals
    /\ processed_signal \in TestSignals
    /\ metrics = <<>>
    /\ pc = "compute"
    /\ status = "running"
    /\ error = NoError
    /\ iterations = 1 /\ metrics_interval = 1 /\ save_interval = 1
    /\ run = 1 /\ input_path = UserInput /\ current = UserInput
    /\ fs = <<>>
    /\ metrics_json = [r \in 1..MaxRuns |-> AbsentDoc]
    /\ i = 0
    /\ blocked = FALSE
    /\ codec_log = [ok |-> 0, failed |-> 0]
    /\ last_plot = [iteration |-> -1, records |-> 0, current_signal |-> NoSignal]

\* current_metrics = calculate_audio_metrics(orig_signal, processed_signal);
\* metrics.append(current_metrics), or the exception of the call.
ComputeMetrics ==
    /\ pc = "compute"
    /\ pc' = "computed"
    /\ IF calculate_audio_metrics_raises(orig_signal, processed_signal)
       THEN /\ Abort("ParameterError", UserInput, UserInput)
            /\ UNCHANGED metrics
       ELSE /\ metrics' = Append(metrics,
                                 calculate_audio_metrics(orig_signal, processed_signal))
            /\ UNCHANGED <<status, error>>
    /\ UNCHANGED <<params, fs, metrics_json, orig_signal, current,
                   processed_signal, i, blocked, codec_log, last_plot>>

MetricsNext == ComputeMetrics

MetricsSpec == MetricsInit /\ [][MetricsNext]_vars

\* C12: the outcome of calculate_audio_metrics(a, b) is the outcome of the
\* call on a[:m] and b[:m], m = min(len(a), len(b)): it raises exactly when
\* that call raises, and otherwise returns the same record in every field.
C12_TruncationLaw ==
    pc = "computed" =>
        LET m == Min(Len(orig_signal), Len(processed_signal))
            a == Truncate(orig_signal, m)
            b == Truncate(processed_signal, m)
        IN /\ status = "failed" <=> calculate_audio_metrics_raises(a, b)
           /\ status # "failed" => metrics = <<calculate_audio_metrics(a, b)>>

C12_Witness ==
    /\ pc = "computed" /\ status = "running"
    /\ Len(orig_signal) = FrameLength /\ Len(processed_signal) = FrameLength + 1
    /\ processed_signal[FrameLength + 1] = 1 /\ processed_signal[FrameLength] = 0
    /\ orig_signal[1] = 1
    /\ metrics[1].mse = [num |-> FrameLength - 1, den |-> FrameLength]
    /\ Len(metrics[1].noise_metrics) = FrameLength

\* C13 (as claimed): for every non-empty signal x, calculate_audio_metrics(x, x)
\* returns a record with mse = 0, psnr = +infinity and rms_diff = 0.
C13_IdentityLaw ==
    (pc = "computed" /\ orig_signal = processed_signal /\ Len(orig_signal) > 0) =>
        /\ status # "failed"
        /\ Len(metrics) = 1
        /\ metrics[1].mse.num = 0 /\ metrics[1].mse.den > 0
        /\ metrics[1].psnr.inf
        /\ RmsDiffIsZero(metrics[1].rms_diff)

====
